---- MODULE Spec2Model ----
(***************************************************************************)
(* Universal Email Agent: the orchestrator run (email_agent.py,            *)
(* UniversalEmailAgent.execute_email_task with the Gmail and Outlook       *)
(* provider flows) and the task registry of the API server                 *)
(* (fastapi_server.py).                                                    *)
(*                                                                         *)
(* SpecAgent follows one execute_email_task call selector by selector.     *)
(* Spec follows the registry: submissions, background runs, reads and      *)
(* clear_tasks, interleaved at the await points of the event loop.         *)
(***************************************************************************)
EXTENDS Integers, Sequences, FiniteSets, TLC

VARIABLES
    \* ---- one execute_email_task call (email_agent.py) ----
    providers,   \* the providers argument: a list of names
    apc,         \* position in execute_email_task
    idx,         \* 1-based position of the for loop in providers
    driver,      \* self.driver: "none" (None) or "session"
    exc,         \* the exception in flight: "none", "setup" or "quit"
    results,     \* the results dict: name -> bool
    outcomes,    \* per processed list entry, how its run ended
    stage,       \* index in StepNames of the step compose_and_send is in
    cand,        \* 1-based index of the selector the step is about to try
    tstep,       \* the step most recently attempted in this provider run
    tried,       \* selectors attempted in step tstep, in order of attempt
    acted,       \* selectors of step tstep whose action went through
    done,        \* step -> how far it got in this provider run
    touched,     \* list positions on whose behalf the driver was used
    acquired,    \* browser sessions created by _setup_driver
    released,    \* driver.quit() calls
    shots,       \* save_screenshot requests of the current provider run
    settled,     \* the pause of line 693 ran after the last provider run
    waited,      \* poll intervals of the login wait that have gone by
    loggedIn,    \* the browser's URL is the provider's mailbox URL
    why,         \* what made the current provider run return False
    ticks,       \* whole locate timeouts the step attempted last has waited
    \* ---- the task registry (fastapi_server.py) ----
    tasks,       \* the module-level dict: task id -> TaskStatus
    rpc,         \* task id -> position of its run_email_task coroutine
    args,        \* task id -> providers handed to its run
    ret,         \* task id -> what execute_email_task gave back
    nextId,      \* number of task ids handed out
    reply,       \* the last HTTP request's path parameter and response
    clears,      \* clear_tasks calls since the last submission, up to 2
    \* ---- one websocket_task_updates connection (fastapi_server.py) ----
    wpc,         \* position of the coroutine in its polling loop
    wtask,       \* the task_id path parameter (0: no connection yet)
    wlast,       \* the snapshot pushed last, None before the first push
    wheld,       \* status of the object the local 'task' holds once that
                 \* object has left the registry
    \* ---- calls of MockLLMReasoner (email_agent.py) ----
    uiCalls,     \* per generate_ui_actions call: provider, email_data and
                 \* the list returned
    instruction, \* argument of the last parse_email_instruction call
    parsed       \* what that call returned, None before the first call

agentVars == <<providers, apc, idx, driver, exc, results, outcomes, stage, cand,
               tstep, tried, acted, done, touched, acquired, released, shots, settled,
               waited, loggedIn, why, ticks>>
serverVars == <<tasks, rpc, args, ret, nextId, reply, clears>>
wsVars == <<wpc, wtask, wlast, wheld>>
uiVars == <<uiCalls, instruction, parsed>>
vars == <<providers, apc, idx, driver, exc, results, outcomes, stage, cand,
          tstep, tried, acted, done, touched, acquired, released, shots, settled,
          waited, loggedIn, why, ticks,
          tasks, rpc, args, ret, nextId, reply, clears,
          wpc, wtask, wlast, wheld, uiCalls, instruction, parsed>>

\* ------------------------------------------------------------------ bounds
MaxProviders == 2
MaxTasks == 2
MaxCalls == 2
MaxChunks == 3
MaxPolls == 2

\* ------------------------------------------------------------ shared data
Range(s) == {s[i] : i \in 1..Len(s)}

SeqsUpTo(S, n) == UNION {[1..k -> S] : k \in 0..n}

\* str.lower() on the names the model draws from
Lower(n) == CASE n = "Gmail" -> "gmail"
              [] n = "Outlook" -> "outlook"
              [] OTHER -> n

\* the keys of self.providers
SupportedProviders == {"gmail", "outlook"}

IsSupported(name) == Lower(name) \in SupportedProviders

\* results[name] = val
RecordResultDropped(res, name, val) == res

RecordResult(res, name, val) == (name :> val) @@ res

\* ----------------------------------------------------- provider automation
\* The steps of compose_and_send in the order of its five selector loops
StepNamesBodyFirst == <<"compose", "recipient", "body", "subject", "send">>

StepNames == <<"compose", "recipient", "subject", "body", "send">>

\* Number of selectors each step walks through. Outlook's send step is the
\* four CSS selectors followed by the XPath fallback, tried under the same
\* exception filter when none of the four was clicked.
SelectorCount ==
    [gmail   |-> [compose |-> 6, recipient |-> 5, subject |-> 3, body |-> 4, send |-> 5],
     outlook |-> [compose |-> 7, recipient |-> 5, subject |-> 4, body |-> 5, send |-> 5]]

\* No step attempted yet: "none"; then "trying", and "ok" (an action went
\* through), "exhausted" (every selector missed) or "error" (it raised).
NotStarted == [s \in Range(StepNames) |-> "none"]

\* What one selector attempt can do: "ok" the element was found and the
\* action went through; "miss" an exception the loop catches
\* (TimeoutException / NoSuchElementException); "error" any other exception
\* (stale element, not interactable, a dead session), which leaves the loop.
AttemptOutcomes == {"ok", "miss", "error"}


\* Where a selector loop goes after one attempt: the index of the next
\* selector to try, or 0 when the loop is over (break on success, or the
\* list is used up).
NextCandidateNoBreak(c, o, n) == IF c < n THEN c + 1 ELSE 0

NextCandidate(c, o, n) ==
    IF o = "ok" THEN 0
    ELSE IF c < n THEN c + 1
    ELSE 0

\* Whole locate timeouts one selector attempt can wait, a tick being the
\* 5 seconds of WebDriverWait(self.driver, 5): the compose, recipient and
\* send loops wait for the element, the subject and body loops call
\* find_element, which answers at once.
LocateTimeout ==
    [compose |-> 1, recipient |-> 1, subject |-> 0, body |-> 0, send |-> 1]

\* Ticks gone by in one attempt: until() raises TimeoutException when the
\* whole timeout has gone by and returns (or passes another exception on)
\* before that.
AttemptTicksTwice(s, o) == IF o = "miss" THEN 2 * LocateTimeout[s] ELSE 0

AttemptTicks(s, o) == IF o = "miss" THEN LocateTimeout[s] ELSE 0

\* The steps whose failure makes compose_and_send return False at once
StepFatalComposeOnly(s) == s = "compose"

StepFatalWithSend(s) == s \in {"compose", "recipient", "send"}

StepFatalRecipientOnly(s) == s = "recipient"

StepFatal(s) == s \in {"compose", "recipient"}

\* What compose_and_send returns once the send loop is over; email_sent is
\* not consulted by the return statement.
SendReturn(email_sent) == TRUE

\* `continue` / falling off the loop body: the for loop takes the next entry
BreakLoop(i, provs) == Len(provs) + 1

ContinueLoop(i, provs) == i + 1

\* The entry written for a name that is not a key of self.providers
UnsupportedEntryTrue(res, name) == RecordResult(res, name, TRUE)

UnsupportedEntry(res, name) == RecordResult(res, name, FALSE)

\* _cleanup_driver's guard `if self.driver`
CleanupNeededNever(drv) == FALSE

CleanupNeeded(drv) == drv # "none"

\* One list entry is finished: its result is written and the loop moves on.
\* paused tells whether the body reached the pause of line 693 (a
\* `continue` skips it).
EndProvider(name, val, label, paused) ==
    /\ results' = RecordResult(results, name, val)
    /\ outcomes' = Append(outcomes, label)
    /\ idx' = ContinueLoop(idx, providers)
    /\ apc' = "loop"
    /\ settled' = paused
    /\ stage' = 0
    /\ cand' = 0

\* _setup_driver: the system ChromeDriver, else the webdriver-manager one,
\* then the two anti-detection calls on the new session.
setup_driver ==
    /\ apc = "setup"
    /\ \E chrome \in {"system", "manager", "neither"}, antidetect \in {"ok", "error"} :
         IF chrome = "neither"
         THEN /\ antidetect = "ok"
              /\ exc' = "setup"
              /\ apc' = "cleanup"
              /\ UNCHANGED <<driver, acquired>>
         ELSE /\ driver' = "session"
              /\ acquired' = acquired + 1
              /\ IF antidetect = "ok"
                 THEN apc' = "loop" /\ exc' = exc
                 ELSE apc' = "cleanup" /\ exc' = "setup"
    /\ UNCHANGED <<providers, idx, results, outcomes, stage, cand, tstep, tried,
                   acted, done, touched, released, shots, settled>>
    /\ UNCHANGED <<waited, loggedIn, why, ticks>>
    /\ UNCHANGED <<serverVars, wsVars, uiVars>>

\* The head of `for provider_name in providers` with the membership test
next_provider ==
    /\ apc = "loop"
    /\ IF idx > Len(providers)
       THEN /\ apc' = "cleanup"
            /\ UNCHANGED <<idx, results, outcomes, tstep, tried, acted, done, shots, why, ticks>>
       ELSE /\ tstep' = "none"
            /\ ticks' = 0
            /\ why' = "none"
            /\ tried' = <<>>
            /\ acted' = <<>>
            /\ done' = NotStarted
            /\ shots' = <<>>
            /\ IF ~IsSupported(providers[idx])
               THEN /\ results' = UnsupportedEntry(results, providers[idx])
                    /\ outcomes' = Append(outcomes, "Unsupported")
                    /\ idx' = ContinueLoop(idx, providers)
                    /\ apc' = apc
               ELSE /\ apc' = "navigate"
                    /\ UNCHANGED <<idx, results, outcomes>>
    /\ UNCHANGED <<providers, driver, exc, stage, cand, touched, acquired,
                   released, settled, waited, loggedIn>>
    /\ UNCHANGED <<serverVars, wsVars, uiVars>>

\* What driver.get and the URL test of line 167 (363) can come to: "inbox"
\* the URL has no needs-login substring, "login" it has one, "error" the
\* driver raised. Only the last makes navigate() return False there.
NavigateFailsOnLogin(o) == o \in {"login", "error"}

NavigateFails(o) == o = "error"

\* navigate(): driver.get, the fixed wait, and the needs-login test on the URL
navigate ==
    /\ apc = "navigate"
    /\ touched' = touched \cup {idx}
    /\ \E o \in {"inbox", "login", "error"} :
         IF NavigateFails(o)
         THEN /\ why' = IF o = "login" THEN "login" ELSE "navigation"
              /\ EndProvider(providers[idx], FALSE, "Failed", FALSE)
         ELSE /\ apc' = IF o = "login" THEN "authwait" ELSE "pagecheck"
              /\ UNCHANGED <<idx, results, outcomes, settled, stage, cand, why>>
    /\ UNCHANGED <<providers, driver, exc, tstep, tried, acted, done, acquired,
                   released, shots, waited, loggedIn, ticks>>
    /\ UNCHANGED <<serverVars, wsVars, uiVars>>

\* navigate(): time.sleep(wait_time) of line 173 (369), one poll interval at
\* a time; meanwhile the person at the browser logs in, or not, or leaves
\* the mailbox again
sleep_wait_time ==
    /\ apc = "authwait"
    /\ waited < MaxPolls
    /\ waited' = waited + 1
    /\ loggedIn' \in BOOLEAN
    /\ UNCHANGED <<providers, apc, idx, driver, exc, results, outcomes, stage, cand,
                   tstep, tried, acted, done, touched, acquired, released, shots,
                   settled, why, ticks>>
    /\ UNCHANGED <<serverVars, wsVars, uiVars>>

\* navigate(): the URL test once the wait is over
await_login ==
    /\ apc = "authwait"
    /\ waited = MaxPolls
    /\ \E o \in {"url", "error"} :
         IF o = "url" /\ loggedIn
         THEN /\ apc' = "pagecheck"
              /\ UNCHANGED <<idx, results, outcomes, settled, stage, cand, why>>
         ELSE /\ why' = IF o = "url" THEN "login" ELSE "navigation"
              /\ EndProvider(providers[idx], FALSE, "Failed", FALSE)
    /\ waited' = 0
    /\ loggedIn' = FALSE
    /\ UNCHANGED <<providers, driver, exc, tstep, tried, acted, done, touched,
                   acquired, released, shots, ticks>>
    /\ UNCHANGED <<serverVars, wsVars, uiVars>>

\* navigate(): the page_source test; then authenticate() (always True) and
\* the entry into compose_and_send
check_page ==
    /\ apc = "pagecheck"
    /\ \E o \in {"clean", "warning", "error"} :
         IF o = "clean"
         THEN /\ apc' = "step"
              /\ stage' = 1
              /\ cand' = 1
              /\ UNCHANGED <<idx, results, outcomes, settled, why>>
         ELSE /\ why' = IF o = "warning" THEN "warning" ELSE "navigation"
              /\ EndProvider(providers[idx], FALSE, "Failed", FALSE)
    /\ UNCHANGED <<providers, driver, exc, tstep, tried, acted, done, touched,
                   acquired, released, shots, waited, loggedIn, ticks>>
    /\ UNCHANGED <<serverVars, wsVars, uiVars>>

\* compose_and_send: one selector of the current step is tried, and whatever
\* follows from it up to the next selector attempt or the return.
try_selector ==
    /\ apc = "step"
    /\ LET name == providers[idx]
           s == StepNames[stage]
           n == SelectorCount[Lower(name)][s]
       IN \E o \in AttemptOutcomes, shot \in {"ok", "error"} :
            LET tried0 == IF tstep = s THEN tried ELSE <<>>
                acted0 == IF tstep = s THEN acted ELSE <<>>
                acted1 == IF o = "ok" THEN Append(acted0, cand) ELSE acted0
                next == NextCandidate(cand, o, n)
                flag == acted1 # <<>>
            IN /\ tstep' = s
               /\ tried' = Append(tried0, cand)
               /\ ticks' = (IF tstep = s THEN ticks ELSE 0) + AttemptTicks(s, o)
               /\ acted' = acted1
               /\ done' = [done EXCEPT ![s] =
                              IF o = "error" THEN "error"
                              ELSE IF flag THEN "ok"
                              ELSE IF next = 0 THEN "exhausted"
                              ELSE "trying"]
               /\ IF o = "error"
                  THEN \* the outer handler: screenshot, return False
                       /\ shot = "ok"
                       /\ shots' = Append(shots, "error")
                       /\ why' = "exception"
                       /\ EndProvider(name, FALSE, "Failed", TRUE)
                  ELSE IF next # 0
                  THEN /\ shot = "ok"
                       /\ cand' = next
                       /\ UNCHANGED <<apc, idx, results, outcomes, settled, stage, shots, why>>
                  ELSE IF ~flag /\ StepFatal(s)
                  THEN /\ IF s = "compose"
                          THEN shots' = IF shot = "ok"
                                        THEN Append(shots, "compose_error")
                                        ELSE shots \o <<"compose_error", "error">>
                          ELSE shot = "ok" /\ shots' = shots
                       /\ why' = IF s = "compose" /\ shot = "error" THEN "exception" ELSE s
                       /\ EndProvider(name, FALSE, "Failed", TRUE)
                  ELSE IF s = "send"
                  THEN /\ shot = "ok"
                       /\ shots' = shots
                       /\ why' = why
                       /\ EndProvider(name, SendReturn(flag),
                                      IF flag THEN "Succeeded"
                                      ELSE "RequiresManualIntervention", TRUE)
                  ELSE /\ shot = "ok"
                       /\ stage' = stage + 1
                       /\ cand' = 1
                       /\ UNCHANGED <<apc, idx, results, outcomes, settled, shots, why>>
    /\ touched' = touched \cup {idx}
    /\ UNCHANGED <<providers, driver, exc, acquired, released, waited, loggedIn>>
    /\ UNCHANGED <<serverVars, wsVars, uiVars>>

\* The finally clause: _cleanup_driver, then the return or the re-raise
cleanup_driver ==
    /\ apc = "cleanup"
    /\ \E q \in {"ok", "error"} :
         IF CleanupNeeded(driver)
         THEN /\ released' = released + 1
              /\ exc' = IF q = "error" THEN "quit" ELSE exc
              /\ apc' = IF q = "error" \/ exc # "none" THEN "raised" ELSE "returned"
         ELSE /\ q = "ok"
              /\ released' = released
              /\ exc' = exc
              /\ apc' = IF exc # "none" THEN "raised" ELSE "returned"
    /\ UNCHANGED <<providers, idx, driver, results, outcomes, stage, cand, tstep,
                   tried, acted, done, touched, acquired, shots, settled,
                   waited, loggedIn, why, ticks>>
    /\ UNCHANGED <<serverVars, wsVars, uiVars>>

Names == {"gmail", "Gmail", "Outlook", "bogus"}

ProviderLists == SeqsUpTo(Names, MaxProviders)

NoTasks == <<>>

\* A fresh UniversalEmailAgent (__init__) entering execute_email_task
InitAgent ==
    /\ providers \in ProviderLists
    /\ apc = "setup"
    /\ idx = 1
    /\ driver = "none"
    /\ exc = "none"
    /\ results = <<>>
    /\ outcomes = <<>>
    /\ stage = 0
    /\ cand = 0
    /\ tstep = "none"
    /\ tried = <<>>
    /\ acted = <<>>
    /\ done = NotStarted
    /\ touched = {}
    /\ acquired = 0
    /\ released = 0
    /\ shots = <<>>
    /\ settled = TRUE
    /\ waited = 0
    /\ ticks = 0
    /\ loggedIn = FALSE
    /\ why = "none"
    /\ tasks = NoTasks
    /\ rpc = [t \in 1..MaxTasks |-> "unused"]
    /\ args = [t \in 1..MaxTasks |-> <<>>]
    /\ ret = [t \in 1..MaxTasks |-> [kind |-> "none", value |-> <<>>]]
    /\ nextId = 0
    /\ reply = [op |-> "none"]
    /\ clears = 0
    /\ wpc = "none"
    /\ wtask = 0
    /\ wlast = <<>>
    /\ wheld = "none"
    /\ uiCalls = <<>>
    /\ instruction = <<>>
    /\ parsed = <<>>

NextAgent ==
    \/ setup_driver
    \/ next_provider
    \/ navigate
    \/ sleep_wait_time
    \/ await_login
    \/ check_page
    \/ try_selector
    \/ cleanup_driver

SpecAgent == InitAgent /\ [][NextAgent]_vars

\* The thread running execute_email_task is not starved, and every call
\* it makes on the driver (a bounded wait, a sleep, a command) returns.
FairAgent == WF_vars(NextAgent)

SpecAgentFair == InitAgent /\ [][NextAgent]_vars /\ FairAgent


\* ------------------------------------------------------------------------
\* The API server (fastapi_server.py)
\* ------------------------------------------------------------------------
TaskIds == 1..MaxTasks

\* Optional[...] fields: None is the empty tuple, a value v is <<v>>
None == <<>>

Some(v) == <<v>>

\* TaskStatus(task_id=..., status="pending", created_at=now): the optional
\* fields take their defaults
NewTaskRunning ==
    [status |-> "running", results |-> None, error |-> None,
     created_at |-> Some("now"), completed_at |-> None]

NewTask ==
    [status |-> "pending", results |-> None, error |-> None,
     created_at |-> Some("now"), completed_at |-> None]

\* The provider lists requests carry
RequestProviders == {<<"gmail">>, <<"gmail", "Gmail">>, <<"gmail", "bogus">>}

\* send_email's validation: the names whose lower case is not supported
InvalidProvidersFirstOnly(provs) ==
    {provs[i] : i \in {j \in {1} : Lower(provs[j]) \notin SupportedProviders}}

InvalidProviders(provs) ==
    {provs[i] : i \in {j \in 1..Len(provs) : Lower(provs[j]) \notin SupportedProviders}}

\* What execute_email_task can give back for a list of supported names: a
\* dict with an entry per name, or an exception (session start or quit).
ExecOutcomes(provs) ==
    {[kind |-> "value", value |-> m] : m \in [Range(provs) -> BOOLEAN]}
        \cup {[kind |-> "raise", value |-> <<>>]}

NoReply == [op |-> "none"]

\* task_id = str(uuid.uuid4()): an id no earlier submission was given
NewTaskIdFixed(n) == 1

NewTaskId(n) == n + 1

\* tasks[task_id], the record get_task_status returns
TaskRecordOfAny(reg, t) == reg[CHOOSE k \in DOMAIN reg : k # t \/ DOMAIN reg = {t}]

TaskRecord(reg, t) == reg[t]

\* The write of line 68
RunningRecordWithResults(rec) ==
    [rec EXCEPT !.status = "running", !.results = Some(<<>>)]

RunningRecord(rec) == [rec EXCEPT !.status = "running"]

\* The writes of lines 84-86 (no await between them)
CompletedRecordUnstamped(rec, value) ==
    [rec EXCEPT !.status = "completed", !.results = Some(value)]

CompletedRecord(rec, value) ==
    [rec EXCEPT !.status = "completed", !.results = Some(value),
                !.completed_at = Some("now")]

\* The handler's writes of lines 92-94
FailedRecord(rec) ==
    [rec EXCEPT !.status = "failed", !.error = Some("error"),
                !.completed_at = Some("now")]

\* The records clear_tasks counts: completed or failed
ClearedCount(reg) ==
    Cardinality({t \in DOMAIN reg : reg[t].status \in {"completed", "failed"}})

\* The registry after tasks.clear()
ClearedRegistryKeepsUnfinished(reg) ==
    [t \in {k \in DOMAIN reg : reg[k].status \notin {"completed", "failed"}} |-> reg[t]]

ClearedRegistry(reg) == NoTasks

\* POST /email/send
send_email ==
    /\ nextId < MaxTasks
    /\ \E provs \in RequestProviders :
         IF InvalidProviders(provs) # {}
         THEN /\ reply' = [op |-> "send", code |-> 400,
                           detail |-> InvalidProviders(provs)]
              /\ UNCHANGED <<tasks, rpc, args, ret, nextId>>
         ELSE LET id == NewTaskId(nextId) IN
              /\ nextId' = id
              /\ tasks' = (id :> NewTask) @@ tasks
              /\ rpc' = [rpc EXCEPT ![id] = "queued"]
              /\ args' = [args EXCEPT ![id] = provs]
              /\ reply' = [op |-> "send", code |-> 200, task_id |-> id,
                           status |-> "pending"]
              /\ UNCHANGED ret
    /\ clears' = 0
    /\ UNCHANGED <<agentVars, wsVars, uiVars>>

\* run_email_task up to its await: the status write of line 68. A missing
\* record raises KeyError there and again in the handler (line 92), which
\* ends the coroutine.
run_email_task_start(t) ==
    /\ rpc[t] = "queued"
    /\ IF t \in DOMAIN tasks
       THEN /\ tasks' = [tasks EXCEPT ![t] = RunningRecord(@)]
            /\ rpc' = [rpc EXCEPT ![t] = "executing"]
       ELSE /\ tasks' = tasks
            /\ rpc' = [rpc EXCEPT ![t] = "crashed"]
    /\ reply' = NoReply
    /\ UNCHANGED <<args, ret, nextId, clears>>
    /\ UNCHANGED <<agentVars, wsVars, uiVars>>

\* agent.execute_email_task in the executor thread
run_in_executor(t) ==
    /\ rpc[t] = "executing"
    /\ \E r \in ExecOutcomes(args[t]) : ret' = [ret EXCEPT ![t] = r]
    /\ rpc' = [rpc EXCEPT ![t] = "returned"]
    /\ reply' = NoReply
    /\ UNCHANGED <<tasks, args, nextId, clears>>
    /\ UNCHANGED <<agentVars, wsVars, uiVars>>

\* run_email_task after the await: lines 84-86, or the handler's 92-94
run_email_task_finish(t) ==
    /\ rpc[t] = "returned"
    /\ IF t \notin DOMAIN tasks
       THEN /\ tasks' = tasks
            /\ rpc' = [rpc EXCEPT ![t] = "crashed"]
       ELSE /\ rpc' = [rpc EXCEPT ![t] = "done"]
            /\ IF ret[t].kind = "value"
               THEN tasks' = [tasks EXCEPT ![t] = CompletedRecord(@, ret[t].value)]
               ELSE tasks' = [tasks EXCEPT ![t] = FailedRecord(@)]
    /\ reply' = NoReply
    /\ UNCHANGED <<args, ret, nextId, clears>>
    /\ UNCHANGED <<agentVars, wsVars, uiVars>>

\* GET /email/status/{task_id}
get_task_status(t) ==
    /\ reply' = IF t \notin DOMAIN tasks
                THEN [op |-> "status", task_id |-> t, code |-> 404]
                ELSE [op |-> "status", task_id |-> t, code |-> 200,
                      task |-> TaskRecord(tasks, t)]
    /\ UNCHANGED <<tasks, rpc, args, ret, nextId, clears>>
    /\ UNCHANGED <<agentVars, wsVars, uiVars>>

\* GET /email/tasks
list_tasks ==
    /\ reply' = [op |-> "list", code |-> 200, tasks |-> tasks,
                 total |-> Cardinality(DOMAIN tasks)]
    /\ UNCHANGED <<tasks, rpc, args, ret, nextId, clears>>
    /\ UNCHANGED <<agentVars, wsVars, uiVars>>

\* DELETE /email/tasks
clear_tasks ==
    /\ reply' = [op |-> "clear", code |-> 200, count |-> ClearedCount(tasks)]
    /\ tasks' = ClearedRegistry(tasks)
    /\ clears' = IF clears < 2 THEN clears + 1 ELSE 2
    /\ wheld' = IF wpc = "sent" /\ wtask \in DOMAIN tasks
                THEN tasks[wtask].status
                ELSE wheld
    /\ UNCHANGED <<rpc, args, ret, nextId>>
    /\ UNCHANGED <<agentVars, wpc, wtask, wlast, uiVars>>

\* The server after import: an empty registry, no run scheduled
Init ==
    /\ tasks = NoTasks
    /\ rpc = [t \in TaskIds |-> "unused"]
    /\ args = [t \in TaskIds |-> <<>>]
    /\ ret = [t \in TaskIds |-> [kind |-> "none", value |-> <<>>]]
    /\ nextId = 0
    /\ reply = NoReply
    /\ clears = 0
    /\ wpc = "none"
    /\ wtask = 0
    /\ wlast = None
    /\ wheld = "none"
    /\ uiCalls = <<>>
    /\ instruction = <<>>
    /\ parsed = <<>>
    /\ providers = <<>>
    /\ apc = "idle"
    /\ idx = 1
    /\ driver = "none"
    /\ exc = "none"
    /\ results = <<>>
    /\ outcomes = <<>>
    /\ stage = 0
    /\ cand = 0
    /\ tstep = "none"
    /\ tried = <<>>
    /\ acted = <<>>
    /\ done = NotStarted
    /\ touched = {}
    /\ acquired = 0
    /\ released = 0
    /\ shots = <<>>
    /\ settled = TRUE
    /\ waited = 0
    /\ ticks = 0
    /\ loggedIn = FALSE
    /\ why = "none"

Next ==
    \/ send_email
    \/ \E t \in TaskIds : run_email_task_start(t)
    \/ \E t \in TaskIds : run_in_executor(t)
    \/ \E t \in TaskIds : run_email_task_finish(t)
    \/ \E t \in TaskIds : get_task_status(t)
    \/ list_tasks
    \/ clear_tasks

Spec == Init /\ [][Next]_vars

\* ------------------------------------------------------------------------
\* A task's run with its execute_email_task call spelled out (SpecTask)
\* ------------------------------------------------------------------------
\* The agent variables of a call that has not begun (pc = "idle") or is at
\* its first statement (pc = "setup") with the list provs
AgentAt(pc, provs) ==
    /\ providers' = provs
    /\ apc' = pc
    /\ idx' = 1
    /\ driver' = "none"
    /\ exc' = "none"
    /\ results' = <<>>
    /\ outcomes' = <<>>
    /\ stage' = 0
    /\ cand' = 0
    /\ tstep' = "none"
    /\ tried' = <<>>
    /\ acted' = <<>>
    /\ done' = NotStarted
    /\ touched' = {}
    /\ acquired' = 0
    /\ released' = 0
    /\ shots' = <<>>
    /\ settled' = TRUE
    /\ waited' = 0
    /\ loggedIn' = FALSE
    /\ why' = "none"
    /\ ticks' = 0

\* Lines 73-81: a fresh UniversalEmailAgent, whose execute_email_task is
\* handed to the executor with the task's providers.
executor_call(t) ==
    /\ rpc[t] = "executing"
    /\ apc = "idle"
    /\ rpc' = [rpc EXCEPT ![t] = "in_executor"]
    /\ AgentAt("setup", args[t])
    /\ UNCHANGED <<tasks, args, ret, nextId, reply, clears>>
    /\ UNCHANGED <<wsVars, uiVars>>

\* The awaited future is done: execute_email_task returned its dict or
\* raised
executor_return(t) ==
    /\ rpc[t] = "in_executor"
    /\ apc \in {"returned", "raised"}
    /\ ret' = [ret EXCEPT ![t] = IF apc = "returned"
                                 THEN [kind |-> "value", value |-> results]
                                 ELSE [kind |-> "raise", value |-> <<>>]]
    /\ rpc' = [rpc EXCEPT ![t] = "returned"]
    /\ AgentAt("idle", <<>>)
    /\ UNCHANGED <<tasks, args, nextId, reply, clears>>
    /\ UNCHANGED <<wsVars, uiVars>>

\* The first task submitted to a fresh server is followed to its end
NextTask ==
    \/ nextId = 0 /\ send_email
    \/ \E t \in TaskIds : run_email_task_start(t)
    \/ \E t \in TaskIds : executor_call(t)
    \/ setup_driver
    \/ next_provider
    \/ navigate
    \/ sleep_wait_time
    \/ await_login
    \/ check_page
    \/ try_selector
    \/ cleanup_driver
    \/ \E t \in TaskIds : executor_return(t)
    \/ \E t \in TaskIds : run_email_task_finish(t)
    \/ \E t \in TaskIds : get_task_status(t)
    \/ clear_tasks

SpecTask == Init /\ [][NextTask]_vars

\* ------------------------------------------------------------------------
\* The websocket subscription (fastapi_server.py, websocket_task_updates)
\* ------------------------------------------------------------------------
\* The fields of the pushed message that come from the record
Snapshot(rec) == [status |-> rec.status, results |-> rec.results]

\* task.status at line 244: 'task' is the object fetched at line 235, which
\* run_email_task keeps writing to for as long as it is in the registry
HeldStatus == IF wtask \in DOMAIN tasks THEN tasks[wtask].status ELSE wheld

\* The loop's exit test of line 244
BreakOn(st) == st \in {"completed", "failed"}

\* A client connects for a task id it was given (line 230)
websocket_accept(t) ==
    /\ wpc = "none"
    /\ t <= nextId
    /\ wpc' = "polling"
    /\ wtask' = t
    /\ UNCHANGED <<wlast, wheld>>
    /\ UNCHANGED <<agentVars, serverVars, uiVars>>

\* Lines 234-241: with the record present, send_json pushes a snapshot or
\* raises WebSocketDisconnect; with no record the iteration goes to sleep
websocket_push ==
    /\ wpc = "polling"
    /\ IF wtask \in DOMAIN tasks
       THEN \/ /\ wpc' = "sent"
               /\ wlast' = Some(Snapshot(tasks[wtask]))
               /\ wheld' = "none"
            \/ /\ wpc' = "disconnected"
               /\ UNCHANGED <<wlast, wheld>>
       ELSE /\ wpc' = "sleeping"
            /\ UNCHANGED <<wlast, wheld>>
    /\ UNCHANGED wtask
    /\ UNCHANGED <<agentVars, serverVars, uiVars>>

\* Lines 244-245, after the await of send_json
websocket_check ==
    /\ wpc = "sent"
    /\ wpc' = IF BreakOn(HeldStatus) THEN "closed" ELSE "sleeping"
    /\ UNCHANGED <<wtask, wlast, wheld>>
    /\ UNCHANGED <<agentVars, serverVars, uiVars>>

\* Line 247: asyncio.sleep(1) is over
websocket_sleep ==
    /\ wpc = "sleeping"
    /\ wpc' = "polling"
    /\ UNCHANGED <<wtask, wlast, wheld>>
    /\ UNCHANGED <<agentVars, serverVars, uiVars>>

NextWs ==
    \/ send_email
    \/ \E t \in TaskIds : run_email_task_start(t)
    \/ \E t \in TaskIds : run_in_executor(t)
    \/ \E t \in TaskIds : run_email_task_finish(t)
    \/ clear_tasks
    \/ \E t \in TaskIds : websocket_accept(t)
    \/ websocket_push
    \/ websocket_check
    \/ websocket_sleep

\* The event loop runs every coroutine that is ready, and a call handed to
\* the executor returns; requests and the client's connect may never come.
FairWs ==
    /\ \A t \in TaskIds : /\ WF_vars(run_email_task_start(t))
                          /\ WF_vars(run_in_executor(t))
                          /\ WF_vars(run_email_task_finish(t))
    /\ WF_vars(websocket_push)
    /\ WF_vars(websocket_check)
    /\ WF_vars(websocket_sleep)

SpecWs == Init /\ [][NextWs]_vars /\ FairWs

\* ------------------------------------------------------------------------
\* The action table (email_agent.py, MockLLMReasoner.generate_ui_actions)
\* ------------------------------------------------------------------------
\* The provider names and EmailInstruction values the calls are made with
UiProviders == {"gmail", "outlook", "Gmail", "bogus"}

EmailData ==
    [recipient : {"example@example.com", "test@example.com"},
     subject : {"Automated Email", "Test Subject"},
     body : {"Test Body", "hi"}]

Click(sel, descr) == [action |-> "click", selector |-> sel, description |-> descr]

Type(sel, txt, descr) ==
    [action |-> "type", selector |-> sel, text |-> txt, description |-> descr]

GmailUiActionsBodyFirst(d) ==
    << Click("[gh='cm']", "Click Compose button"),
       Type("[name='to']", d.recipient, "Fill recipient"),
       Type("[role='textbox']", d.body, "Fill body"),
       Type("[name='subjectbox']", d.subject, "Fill subject"),
       Click("[role='button'][tabindex='1']", "Click Send") >>

GmailUiActions(d) ==
    << Click("[gh='cm']", "Click Compose button"),
       Type("[name='to']", d.recipient, "Fill recipient"),
       Type("[name='subjectbox']", d.subject, "Fill subject"),
       Type("[role='textbox']", d.body, "Fill body"),
       Click("[role='button'][tabindex='1']", "Click Send") >>

OutlookUiActions(d) ==
    << Click("[data-testid='new-mail-button']", "Click New Mail"),
       Type("[aria-label*='To']", d.recipient, "Fill recipient"),
       Type("[aria-label*='Subject']", d.subject, "Fill subject"),
       Type("[role='textbox'][aria-label*='body']", d.body, "Fill body"),
       Click("[data-testid='send-button']", "Click Send") >>

generate_ui_actions(provider, email_data) ==
    IF Lower(provider) = "gmail" THEN GmailUiActions(email_data)
    ELSE IF Lower(provider) = "outlook" THEN OutlookUiActions(email_data)
    ELSE <<>>

\* One call on the agent's reasoner; nothing of the agent is written
call_generate_ui_actions ==
    /\ Len(uiCalls) < MaxCalls
    /\ \E p \in UiProviders, d \in EmailData :
          uiCalls' = Append(uiCalls, [provider |-> p, email_data |-> d,
                                      actions |-> generate_ui_actions(p, d)])
    /\ UNCHANGED <<agentVars, serverVars, wsVars, instruction, parsed>>

NextUi == call_generate_ui_actions

SpecUi == Init /\ [][NextUi]_vars

\* ------------------------------------------------------------------------
\* The instruction parser (email_agent.py, parse_email_instruction)
\* ------------------------------------------------------------------------
\* A Python str is the sequence of its characters.
Whitespace == {" ", "\t", "\n"}

\* The pieces instructions are put together from
Chunks ==
    { <<"t", "o">>, <<"T", "O">>, <<" ">>, <<"\t">>, <<"a", "@", "b">>,
      <<"a", "b", "o", "u", "t">>, <<"A", "b", "o", "u", "t">>,
      <<"s", "a", "y", "i", "n", "g">>, <<".">> }

RECURSIVE Concat(_)
Concat(ss) == IF ss = <<>> THEN <<>> ELSE Head(ss) \o Concat(Tail(ss))

Instructions == {Concat(f) : f \in SeqsUpTo(Chunks, MaxChunks)}

\* str.lower() on the characters instructions are made of
LowerChar(c) == CASE c = "T" -> "t"
                  [] c = "O" -> "o"
                  [] c = "A" -> "a"
                  [] OTHER -> c

LowerStr(s) == [i \in 1..Len(s) |-> LowerChar(s[i])]

MinOf(S) == CHOOSE x \in S : \A y \in S : x <= y

MaxOf(S) == CHOOSE x \in S : \A y \in S : x >= y

\* Positions at which sub occurs in s
Occurrences(s, sub) ==
    {i \in 1..(Len(s) - Len(sub) + 1) : SubSeq(s, i, i + Len(sub) - 1) = sub}

\* sub in s
Contains(s, sub) == Occurrences(s, sub) # {}

\* s.split(): the maximal runs of non-whitespace characters, in order
SplitWs(s) ==
    LET starts == {i \in 1..Len(s) :
                     s[i] \notin Whitespace /\ (i = 1 \/ s[i - 1] \in Whitespace)}
        start(j) == CHOOSE i \in starts : Cardinality({x \in starts : x <= i}) = j
        stop(i) == IF \E k \in i..Len(s) : s[k] \in Whitespace
                   THEN MinOf({k \in i..Len(s) : s[k] \in Whitespace}) - 1
                   ELSE Len(s)
    IN [j \in 1..Cardinality(starts) |-> SubSeq(s, start(j), stop(start(j)))]

\* s.split(sep): cut at the leftmost occurrences of sep, left to right
RECURSIVE SplitOn(_, _)
SplitOn(s, sep) ==
    IF ~Contains(s, sep)
    THEN <<s>>
    ELSE LET i == MinOf(Occurrences(s, sep))
         IN <<SubSeq(s, 1, i - 1)>> \o SplitOn(SubSeq(s, i + Len(sep), Len(s)), sep)

\* s.strip(chars)
Strip(s, chars) ==
    LET keep == {i \in 1..Len(s) : s[i] \notin chars}
    IN IF keep = {} THEN <<>> ELSE SubSeq(s, MinOf(keep), MaxOf(keep))

\* lst[k] with Python's 0-based index: IndexError past the end
IndexError == <<"IndexError">>

Item(lst, k) == IF k < Len(lst) THEN lst[k + 1] ELSE IndexError

DefaultRecipient == <<"e", "x", "a", "m", "p", "l", "e", "@", "e", "x", "a", "m", "p", "l", "e", ".", "c", "o", "m">>

DefaultSubject == <<"A", "u", "t", "o", "m", "a", "t", "e", "d", " ", "E", "m", "a", "i", "l">>

DefaultBodyPrefix == <<"T", "h", "i", "s", " ", "e", "m", "a", "i", "l", " ", "w", "a", "s", " ", "s", "e", "n", "t", " ", "a", "u", "t", "o", "m", "a", "t", "i", "c", "a", "l", "l", "y", " ", "b", "a", "s", "e", "d", " ", "o", "n", ":", " ">>

\* Lines 66-74: the word after the first "to" whose next word has an "@",
\* searched only when the lower-cased text contains "to "
ParseRecipient(instr) ==
    LET words == SplitWs(instr)
        hits == {i \in 0..(Len(words) - 1) :
                   /\ LowerStr(Item(words, i)) = <<"t", "o">>
                   /\ i + 1 < Len(words)
                   /\ Contains(Item(words, i + 1), <<"@">>)}
    IN IF Contains(LowerStr(instr), <<"t", "o", " ">>) /\ hits # {}
       THEN Item(words, MinOf(hits) + 1)
       ELSE DefaultRecipient

\* Lines 77-85
ParseSubject(instr) ==
    IF Contains(LowerStr(instr), <<"a", "b", "o", "u", "t">>)
    THEN LET words == SplitOn(instr, <<"a", "b", "o", "u", "t">>)
         IN IF Len(words) > 1
            THEN Item(SplitOn(Strip(Item(words, 1), Whitespace), <<".">>), 0)
            ELSE DefaultSubject
    ELSE IF Contains(LowerStr(instr), <<"s", "u", "b", "j", "e", "c", "t">>)
    THEN LET words == SplitOn(instr, <<"s", "u", "b", "j", "e", "c", "t">>)
         IN IF Len(words) > 1
            THEN Strip(Item(words, 1), Whitespace)
            ELSE DefaultSubject
    ELSE DefaultSubject

\* Lines 88-92
ParseBody(instr) ==
    IF Contains(LowerStr(instr), <<"s", "a", "y", "i", "n", "g">>)
          /\ Len(SplitOn(instr, <<"s", "a", "y", "i", "n", "g">>)) > 1
    THEN Strip(Strip(Item(SplitOn(instr, <<"s", "a", "y", "i", "n", "g">>), 1), Whitespace), {"'", "\""})
    ELSE DefaultBodyPrefix \o instr

\* The EmailInstruction returned, or the exception an index out of range
\* would raise
parse_email_instruction(instr) ==
    LET r == ParseRecipient(instr)
        sj == ParseSubject(instr)
        b == ParseBody(instr)
    IN IF IndexError \in {r, sj, b}
       THEN [kind |-> "raise"]
       ELSE [kind |-> "value", recipient |-> r, subject |-> sj, body |-> b,
             raw_instruction |-> instr]

\* The call of the parser on a fresh reasoner, as test_mock_parsing and
\* execute_email_task make it
call_parse_email_instruction ==
    /\ parsed = None
    /\ \E instr \in Instructions :
          /\ instruction' = instr
          /\ parsed' = Some(parse_email_instruction(instr))
    /\ UNCHANGED <<agentVars, serverVars, wsVars, uiCalls>>

NextParse == call_parse_email_instruction

SpecParse == Init /\ [][NextParse]_vars

\* ------------------------------------------------------------------------
\* Properties of the registry (Spec)
\* ------------------------------------------------------------------------
Terminal == {"completed", "failed"}

\* C1: the run scheduled for an accepted task moves its record from
\* pending to running when it starts, and when it ends leaves the record
\* completed or failed with completed_at and either results or error
\* written, whatever submissions, reads and clear_tasks calls interleave.
C1_RunReachesTerminalRecord ==
    [][\A t \in TaskIds :
         /\ (rpc[t] = "queued" /\ rpc'[t] # "queued")
               => /\ t \in DOMAIN tasks /\ tasks[t].status = "pending"
                  /\ t \in DOMAIN tasks' /\ tasks'[t].status = "running"
         /\ (rpc[t] = "returned" /\ rpc'[t] # "returned")
               => /\ t \in DOMAIN tasks /\ tasks[t].status = "running"
                  /\ t \in DOMAIN tasks' /\ tasks'[t].status \in Terminal
                  /\ tasks'[t].completed_at # None
                  /\ (tasks'[t].results # None) # (tasks'[t].error # None)]_vars

\* C2: clear_tasks removes only completed or failed records; a record that
\* is pending or running before the call is still there, unchanged, after.
C2_ClearKeepsUnfinished ==
    [][clear_tasks =>
         \A t \in DOMAIN tasks :
            tasks[t].status \notin Terminal
               => t \in DOMAIN tasks' /\ tasks'[t] = tasks[t]]_vars

\* C3: the count clear_tasks reports is the number of records it removed.
C3_ClearCountIsRemoved ==
    [][clear_tasks =>
         reply'.count = Cardinality(DOMAIN tasks) - Cardinality(DOMAIN tasks')]_vars

\* ------------------------------------------------------------------------
\* Properties of one execute_email_task call (SpecAgent)
\* ------------------------------------------------------------------------
InProviderLoop == apc \in {"loop", "navigate", "authwait", "pagecheck", "step"}

Finished == apc \in {"returned", "raised"}

\* The list entry whose result was written last
LastName == providers[Len(outcomes)]

\* The list entry whose provider run tstep, tried, acted and done describe:
\* the one in progress, else the one that ended last
RunName == providers[IF apc = "step" THEN Len(outcomes) + 1 ELSE Len(outcomes)]

\* Every requested name has a boolean entry, and unknown names map to FALSE
FullMap ==
    /\ DOMAIN results = Range(providers)
    /\ \A n \in Range(providers) :
         /\ results[n] \in BOOLEAN
         /\ ~IsSupported(n) => results[n] = FALSE

\* C4: a provider's entry is true only if its run ended in Succeeded, that
\* is the compose click, the recipient fill and the send click all went
\* through; a run in which no send selector could be clicked is reported
\* as false.
C4_TrueOnlyIfSent ==
    (apc = "loop" /\ outcomes # <<>> /\ results[LastName] = TRUE)
        => /\ done["compose"] = "ok"
           /\ done["recipient"] = "ok"
           /\ done["send"] = "ok"

\* C5 as stated: execute_email_task never raises, whatever the driver does
\* (failing to start included), and what it returns is a full map.
C5_NeverRaises ==
    /\ apc # "raised"
    /\ apc = "returned" => FullMap

\* C5 amended: once the session has started, nothing the driver does while
\* the providers are processed raises; execute_email_task returns a full
\* map unless _setup_driver or driver.quit() raised, and raises exactly then.
C5_FullMapUnlessSetupOrQuitRaises ==
    /\ InProviderLoop => exc = "none"
    /\ apc = "returned" => exc = "none" /\ FullMap
    /\ apc = "raised" => exc \in {"setup", "quit"}
    /\ (Finished /\ exc = "none") => apc = "returned"

C5_Witness ==
    /\ apc = "returned"
    /\ Len(providers) = 2
    /\ "bogus" \in Range(providers)
    /\ "Failed" \in Range(outcomes)

\* C6: a provider run that ends as Failed (navigation failure, login not
\* completed, fatal step failure, or an exception of the driver) writes
\* false for that provider, leaves every other entry of the map as it was,
\* and the loop goes on with the next list entry; on return every list
\* entry has been processed and every known one was attempted.
C6_FailureIsolated ==
    /\ [][(Len(outcomes') = Len(outcomes) + 1 /\ outcomes'[Len(outcomes')] = "Failed")
            => /\ results'[providers[idx]] = FALSE
               /\ DOMAIN results' = DOMAIN results \cup {providers[idx]}
               /\ \A m \in DOMAIN results \ {providers[idx]} : results'[m] = results[m]
               /\ apc' = "loop"
               /\ idx' = idx + 1
               /\ exc' = "none"]_vars
    /\ [](apc = "returned"
            => /\ Len(outcomes) = Len(providers)
               /\ \A i \in 1..Len(providers) : IsSupported(providers[i]) => i \in touched)

C6_Witness ==
    /\ apc = "returned"
    /\ providers = <<"gmail", "Outlook">>
    /\ outcomes = <<"Failed", "Succeeded">>
    /\ results = ("gmail" :> FALSE) @@ ("Outlook" :> TRUE)

\* C7: the browser session is created at most once, before the first
\* provider is processed, and driver.quit() is called exactly once for a
\* created session, after the last provider, on the return path and on
\* every raising path; never twice, never zero times.
C7_SessionScoped ==
    /\ acquired \in {0, 1}
    /\ released <= acquired
    /\ apc = "setup" => acquired = 0
    /\ InProviderLoop => acquired = 1 /\ released = 0
    /\ touched # {} => acquired = 1
    /\ Finished => released = acquired
    /\ apc = "returned" => acquired = 1

C7_Witness ==
    /\ apc = "raised"
    /\ exc = "setup"
    /\ acquired = 1
    /\ released = 1

\* C8: a name that is not a known provider gets false at the loop head and
\* the driver is never used on its behalf; gmail and bogus with gmail
\* succeeding give {gmail: true, bogus: false} in either order.
C8_UnknownProviderFalse ==
    /\ \A i \in touched : IsSupported(providers[i])
    /\ \A i \in 1..Len(outcomes) :
         ~IsSupported(providers[i])
            => outcomes[i] = "Unsupported" /\ results[providers[i]] = FALSE
    /\ (/\ apc = "returned"
        /\ providers \in {<<"gmail", "bogus">>, <<"bogus", "gmail">>}
        /\ "Succeeded" \in Range(outcomes))
            => results = ("gmail" :> TRUE) @@ ("bogus" :> FALSE)

C8_Witness ==
    /\ apc = "returned"
    /\ providers = <<"bogus", "gmail">>
    /\ outcomes = <<"Unsupported", "Succeeded">>
    /\ touched = {2}

\* C9: in every step the selectors are tried in list order, each once; the
\* first one whose action goes through ends the step: if it is the k-th,
\* exactly k were attempted, one action was applied, and the step is not
\* entered again.
C9_FirstMatchWins ==
    /\ \A j \in 1..Len(tried) : tried[j] = j
    /\ Len(acted) <= 1
    /\ acted # <<>> => acted[1] = Len(tried)
    /\ tstep # "none" =>
         /\ Len(tried) <= SelectorCount[Lower(RunName)][tstep]
         /\ (done[tstep] = "ok") = (acted # <<>>)
    /\ apc = "step" => done[StepNames[stage]] \in {"none", "trying"}

C9_Witness ==
    /\ apc = "step"
    /\ StepNames[stage] = "recipient"
    /\ tstep = "compose"
    /\ tried = <<1, 2, 3>>
    /\ acted = <<3>>

\* C10: when every recipient selector has missed, the run ends as Failed,
\* its entry is false, and no subject, body or send selector is attempted.
C10_RecipientFatal ==
    done["recipient"] = "exhausted"
        => /\ done["subject"] = "none"
           /\ done["body"] = "none"
           /\ done["send"] = "none"
           /\ tstep = "recipient"
           /\ apc # "step"
           /\ outcomes # <<>>
           /\ outcomes[Len(outcomes)] = "Failed"
           /\ results[LastName] = FALSE

C10_Witness ==
    /\ apc = "returned"
    /\ done["compose"] = "ok"
    /\ done["recipient"] = "exhausted"
    /\ Len(tried) = 5


\* How the provider run that done describes ended (it has ended)
RunEnded == apc # "step" /\ outcomes # <<>> /\ tstep # "none"

\* C11: a failure of the subject step or of the body step, whatever makes
\* a selector's locate or act fail (not found, stale element, not
\* interactable), is not fatal: once compose and recipient have succeeded
\* the send step is attempted, and the run does not end as Failed because
\* of the subject or body step.
C11_SubjectBodyNonFatal ==
    (RunEnded /\ done["compose"] = "ok" /\ done["recipient"] = "ok")
        => /\ done["send"] # "none"
           /\ done["subject"] # "error"
           /\ done["body"] # "error"

\* C12: when compose and recipient succeed and only the send step fails
\* (no send selector clickable), the run ends in the manual-intervention
\* outcome; that outcome is reached only after compose and recipient went
\* through and every send selector missed, and its entry in the result map
\* differs from the entry a Failed run gets.
C12_ManualInterventionDistinct ==
    RunEnded =>
        /\ (/\ done["compose"] = "ok"
            /\ done["recipient"] = "ok"
            /\ done["subject"] \in {"ok", "exhausted"}
            /\ done["body"] \in {"ok", "exhausted"}
            /\ done["send"] = "exhausted")
              => outcomes[Len(outcomes)] = "RequiresManualIntervention"
        /\ outcomes[Len(outcomes)] = "RequiresManualIntervention"
              => /\ done["compose"] = "ok"
                 /\ done["recipient"] = "ok"
                 /\ done["send"] = "exhausted"
                 /\ results[LastName] = TRUE
        /\ outcomes[Len(outcomes)] = "Failed" => results[LastName] = FALSE

C12_Witness ==
    /\ apc = "returned"
    /\ providers = <<"Outlook">>
    /\ done = [compose |-> "ok", recipient |-> "ok", subject |-> "ok",
               body |-> "ok", send |-> "exhausted"]
    /\ outcomes = <<"RequiresManualIntervention">>
    /\ Len(tried) = 5

\* ------------------------------------------------------------------------
\* Properties of the registry, continued (Spec)
\* ------------------------------------------------------------------------
\* C13: send_email answers with the task id without waiting for the run:
\* when it returns, the record of that id is pending with no results, no
\* error and no completed_at, and the task's run has not started.
C13_ReturnsPendingBeforeRun ==
    (reply.op = "send" /\ reply.code = 200)
        => /\ reply.task_id \in DOMAIN tasks
           /\ reply.status = "pending"
           /\ tasks[reply.task_id].status = "pending"
           /\ tasks[reply.task_id].results = None
           /\ tasks[reply.task_id].error = None
           /\ tasks[reply.task_id].completed_at = None
           /\ rpc[reply.task_id] = "queued"
           /\ ret[reply.task_id].kind = "none"

C13_Witness ==
    /\ reply.op = "send" /\ reply.code = 200 /\ reply.task_id = 2
    /\ rpc[1] = "executing"
    /\ rpc[2] = "queued"

\* C14: a submission naming at least one unknown provider is answered with
\* a client error and changes nothing (no record, no run scheduled), also
\* when it names known providers too; so no accepted task carries an
\* unknown name.
C14_UnknownProviderRejected ==
    [][reply'.op = "send" =>
         IF reply'.code = 200
         THEN \A n \in Range(args'[reply'.task_id]) : IsSupported(n)
         ELSE /\ reply'.code = 400
              /\ \E n \in reply'.detail : ~IsSupported(n)
              /\ UNCHANGED <<tasks, rpc, args, ret, nextId>>]_vars

C14_Witness ==
    /\ reply.op = "send" /\ reply.code = 400 /\ reply.detail = {"bogus"}
    /\ nextId = 1
    /\ rpc = [t \in TaskIds |-> IF t = 1 THEN "queued" ELSE "unused"]

\* C15: get_task_status for an id that is not in the registry answers
\* not-found, for an id that is in the registry it answers with that
\* task's current record and no other's; either way the registry and the
\* runs are left as they were.
C15_StatusReadsOwnRecord ==
    /\ [](reply.op = "status" =>
             IF reply.task_id \in DOMAIN tasks
             THEN reply.code = 200 /\ reply.task = tasks[reply.task_id]
             ELSE reply.code = 404)
    /\ [][reply'.op = "status" => UNCHANGED <<tasks, rpc, args, ret, nextId>>]_vars

C15_Witness ==
    /\ reply.op = "status" /\ reply.code = 200 /\ reply.task_id = 2
    /\ DOMAIN tasks = {1, 2}
    /\ tasks[1].status = "completed"
    /\ tasks[2].status = "running"

C15_WitnessNotFound ==
    /\ reply.op = "status" /\ reply.code = 404 /\ reply.task_id = 1
    /\ DOMAIN tasks = {2}

\* C16: of two clear_tasks calls in a row with no submission between them
\* the second reports 0, whatever the registry held before the first and
\* whether or not a task's run ends between the two calls.
C16_SecondClearReportsZero ==
    [][(reply'.op = "clear" /\ clears >= 1) => reply'.count = 0]_vars

C16_Witness ==
    /\ reply.op = "clear" /\ reply.count = 0
    /\ clears = 2
    /\ nextId = 2
    /\ rpc[1] = "crashed"
    /\ rpc[2] = "queued"

\* The order of the lifecycle: pending, running, then completed or failed
StatusRank(st) == CASE st = "pending" -> 0
                    [] st = "running" -> 1
                    [] OTHER -> 2

\* C17: once a record is completed or failed none of its fields changes
\* again; the only later change is its removal by clear_tasks. A record's
\* status never moves backward, nor from completed to failed or back.
C17_TerminalIsFinal ==
    [][\A t \in DOMAIN tasks :
         IF t \in DOMAIN tasks'
         THEN /\ StatusRank(tasks'[t].status) >= StatusRank(tasks[t].status)
              /\ tasks[t].status \in Terminal => tasks'[t] = tasks[t]
         ELSE reply'.op = "clear"]_vars

C17_Witness ==
    /\ DOMAIN tasks = {1, 2}
    /\ tasks[1].status = "failed"
    /\ tasks[2].status = "completed"
    /\ reply.op = "status" /\ reply.task_id = 1

\* What a reader may rely on in a record it sees completed or failed
TerminalFieldsSet(rec) ==
    rec.status \in Terminal
        => /\ rec.completed_at # None
           /\ rec.results # None <=> rec.status = "completed"
           /\ rec.error # None <=> rec.status = "failed"

\* C18: every status read and every list that shows a task completed or
\* failed also shows its completed_at set, its results set exactly when it
\* is completed and its error set exactly when it is failed.
C18_ReadsSeeWholeTerminalRecord ==
    /\ (reply.op = "status" /\ reply.code = 200) => TerminalFieldsSet(reply.task)
    /\ reply.op = "list"
          => \A t \in DOMAIN reply.tasks : TerminalFieldsSet(reply.tasks[t])

C18_Witness ==
    /\ reply.op = "list" /\ reply.total = 2
    /\ reply.tasks[1].status = "completed"
    /\ reply.tasks[2].status = "failed"

\* ------------------------------------------------------------------------
\* Properties of the websocket subscription (SpecWs)
\* ------------------------------------------------------------------------
Subscribed == wpc \in {"polling", "sent", "sleeping"}

\* C19: a subscription pushes snapshots until the task is completed or
\* failed and then stops: whatever the interleaving with the task's run
\* and with clear_tasks, once the run has ended the loop eventually ends
\* (unless the client went away first), and the last snapshot it pushed
\* carries a completed or failed status.
C19_SubscriptionEnds ==
    /\ [](wpc = "closed" => wlast # None /\ wlast[1].status \in Terminal)
    /\ [](Subscribed /\ rpc[wtask] \in {"done", "crashed"}
             => <>(wpc \in {"closed", "disconnected"}))

\* ------------------------------------------------------------------------
\* Properties of the action table (SpecUi)
\* ------------------------------------------------------------------------
\* The step of the flow an entry of the table stands for
EntryStep(e) ==
    CASE e.action = "click" /\ e.description \in {"Click Compose button", "Click New Mail"}
            -> "compose"
      [] e.action = "type" /\ e.description = "Fill recipient" -> "recipient"
      [] e.action = "type" /\ e.description = "Fill subject" -> "subject"
      [] e.action = "type" /\ e.description = "Fill body" -> "body"
      [] e.action = "click" /\ e.description = "Click Send" -> "send"
      [] OTHER -> "none"

\* C20: for gmail and for outlook the table returned for an intent is not
\* empty and lists compose, recipient, subject, body, send in that order,
\* the three fill entries carrying the intent's recipient, subject and
\* body; two calls with the same provider and intent return the same list;
\* and a call leaves the agent's state as it was.
C20_TableOrderedAndStable ==
    /\ [](\A i \in 1..Len(uiCalls) :
            LET c == uiCalls[i] IN
            /\ Lower(c.provider) \in SupportedProviders
                  => /\ c.actions # <<>>
                     /\ [k \in 1..Len(c.actions) |-> EntryStep(c.actions[k])] = StepNames
                     /\ c.actions[2].text = c.email_data.recipient
                     /\ c.actions[3].text = c.email_data.subject
                     /\ c.actions[4].text = c.email_data.body
            /\ \A j \in 1..Len(uiCalls) :
                  (uiCalls[j].provider = c.provider
                      /\ uiCalls[j].email_data = c.email_data)
                     => uiCalls[j].actions = c.actions)
    /\ [][uiCalls' # uiCalls => UNCHANGED agentVars]_vars

C20_Witness ==
    /\ Len(uiCalls) = 2
    /\ uiCalls[1].provider = "outlook"
    /\ uiCalls[2] = uiCalls[1]
    /\ Len(uiCalls[1].actions) = 5

\* ------------------------------------------------------------------------
\* Properties of the instruction parser (SpecParse)
\* ------------------------------------------------------------------------
\* The tokens of an instruction that contain "@" and directly follow the
\* word "to"
AddressedTokens(instr) ==
    LET words == SplitWs(instr)
    IN {words[i + 1] : i \in {j \in 1..(Len(words) - 1) :
                                 /\ LowerStr(words[j]) = <<"t", "o">>
                                 /\ "@" \in Range(words[j + 1])}}

\* C21: parse_email_instruction is total: for every instruction it returns
\* without raising an intent whose raw_instruction is the input and whose
\* recipient is not empty: a token of the instruction that contains "@"
\* and directly follows the word "to", or the placeholder address when the
\* instruction has no such token.
C21_ParseTotalRecipient ==
    parsed # None
        => /\ parsed[1].kind = "value"
           /\ parsed[1].raw_instruction = instruction
           /\ parsed[1].recipient # <<>>
           /\ IF AddressedTokens(instruction) # {}
              THEN parsed[1].recipient \in AddressedTokens(instruction)
              ELSE parsed[1].recipient = DefaultRecipient

\* ------------------------------------------------------------------------
\* Properties of the provider flows, continued (SpecAgent)
\* ------------------------------------------------------------------------
\* C22: within any step, when locating or acting on a selector fails, for
\* whatever reason (not found, stale element, not interactable), the flow
\* goes on with the next selector of the same step: while selectors of the
\* step are left untried such a failure ends neither the step nor the
\* provider run.
C22_FailedCandidateContinues ==
    [][(/\ apc = "step"
        /\ done'[StepNames[stage]] # "ok"
        /\ cand < SelectorCount[Lower(providers[idx])][StepNames[stage]])
          => /\ apc' = "step"
             /\ stage' = stage
             /\ cand' = cand + 1]_vars

\* C23: while waiting for the login the URL is checked again at every poll
\* interval: at the first poll at which it is the mailbox URL the flow
\* leaves the wait (without sitting out the rest of the window), and the
\* run ends Failed for the missing login only when the window is used up
\* with no match, and then with no compose step attempted.
C23_PollsAndProceedsAtFirstMatch ==
    [][apc = "authwait"
          => /\ loggedIn => apc' = "pagecheck"
             /\ why' = "login"
                   => ~loggedIn /\ waited = MaxPolls /\ done' = NotStarted]_vars

\* C24: after navigation, a URL or a page content that matches one of the
\* provider's signatures takes the flow into the bounded login wait, not
\* to an immediate failure; with no match the flow goes on to the compose
\* step.
C24_SignatureEntersWait ==
    [][/\ (apc = "navigate" /\ apc' = "loop") => why' = "navigation"
       /\ (apc = "pagecheck" /\ why' = "warning") => apc' = "authwait"
       /\ (apc = "pagecheck" /\ why' = why /\ apc' # "pagecheck")
             => apc' = "step" /\ stage' = 1]_vars

\* C24, as the code has it: a URL with a needs-login substring takes the
\* flow into the login wait and never fails the run at once; the page
\* content is looked at after that (no needs-login URL, or a wait that
\* ended on the mailbox URL), and a warning found in it ends the run as
\* Failed with no compose step attempted, while a page without one takes
\* the flow to the compose step.
C24_UrlEntersWaitWarningFails ==
    [][/\ (apc = "navigate" /\ apc' = "loop") => why' = "navigation"
       /\ (apc = "navigate" /\ apc' # "loop") => apc' \in {"authwait", "pagecheck"}
       /\ (apc = "pagecheck" /\ why' = "warning")
             => /\ apc' = "loop"
                /\ outcomes' = Append(outcomes, "Failed")
                /\ results'[providers[idx]] = FALSE
                /\ done' = NotStarted
       /\ (apc = "pagecheck" /\ why' = why /\ apc' # "pagecheck")
             => apc' = "step" /\ stage' = 1]_vars

C24_Witness ==
    /\ apc = "loop"
    /\ why = "warning"
    /\ providers = <<"Outlook", "gmail">>
    /\ outcomes = <<"Succeeded", "Failed">>
    /\ done = NotStarted

\* C25: providers are processed one at a time, in the requested order, in
\* the one session of the call, and whenever a provider's run has ended
\* (sent, failed at navigation, failed at a step, or raised) the settle
\* pause has elapsed before the driver is used for the next provider.
C25_SettleBetweenProviders ==
    /\ acquired <= 1
    /\ touched \subseteq 1..idx
    /\ apc = "navigate" => settled

\* Where a provider run is: navigate, login wait, page check, then the
\* five steps
InRun == apc \in {"navigate", "authwait", "pagecheck", "step"}

RunRank == CASE apc = "navigate" -> 1
             [] apc = "authwait" -> 2
             [] apc = "pagecheck" -> 3
             [] OTHER -> 3 + stage

\* C26: for every provider requested exactly one provider run (navigate,
\* then compose_and_send) is started in the call, also when the list names
\* a provider more than once or in different letter case; and within a
\* run the stages only move forward.
C26_OneRunPerProvider ==
    /\ [](\A i, j \in touched :
             Lower(providers[i]) = Lower(providers[j]) => i = j)
    /\ [](apc = "returned"
             => \A i \in 1..Len(providers) :
                   IsSupported(providers[i])
                      => \E j \in touched : Lower(providers[j]) = Lower(providers[i]))
    /\ [][(InRun /\ InRun') => RunRank' >= RunRank]_vars

FixedOrder == <<"compose", "recipient", "subject", "body", "send">>

\* A step is over: an action went through, or (subject and body only)
\* every selector missed
StepOver(s) ==
    \/ done[s] = "ok"
    \/ done[s] = "exhausted" /\ s \in {"subject", "body"}

\* C28: within one provider run the steps are attempted in the order
\* compose, recipient, subject, body, send: a step is attempted only after
\* every earlier step has finished (an action went through, or, for
\* subject and body, every selector missed), and a step that has finished
\* is not attempted again.
C28_StepsInFixedOrder ==
    /\ [](\A k \in 1..5 :
             done[FixedOrder[k]] # "none"
                => \A j \in 1..(k - 1) : StepOver(FixedOrder[j]))
    /\ [][\A s \in DOMAIN done :
            (done[s] \in {"ok", "exhausted", "error"} /\ done'[s] # done[s])
               => apc = "loop" /\ done' = NotStarted]_vars

C28_Witness ==
    /\ apc = "returned"
    /\ providers = <<"gmail">>
    /\ done = [compose |-> "ok", recipient |-> "ok", subject |-> "exhausted",
               body |-> "ok", send |-> "ok"]
    /\ tstep = "send"
    /\ tried = <<1, 2, 3>>

\* C29: if every compose selector fails, the provider's run ends as Failed
\* with a false result, and no recipient, subject, body or send selector
\* is attempted in that run.
C29_ComposeFatal ==
    done["compose"] = "exhausted"
        => /\ \A s \in {"recipient", "subject", "body", "send"} : done[s] = "none"
           /\ tstep = "compose"
           /\ apc # "step"
           /\ outcomes[Len(outcomes)] = "Failed"
           /\ results[LastName] = FALSE

C29_Witness ==
    /\ apc = "returned"
    /\ providers = <<"Outlook">>
    /\ done["compose"] = "exhausted"
    /\ tried = <<1, 2, 3, 4, 5, 6, 7>>
    /\ results = [Outlook |-> FALSE]

\* C30: whenever a step fails totally (every selector of compose,
\* recipient, subject, body or send used up) a screenshot is requested
\* from the driver for that failure, and none is requested for a step that
\* succeeded.
C30_ScreenshotOnTotalFailure ==
    /\ Cardinality({s \in DOMAIN done : done[s] = "exhausted"}) <= Len(shots)
    /\ (\A s \in DOMAIN done : done[s] \in {"none", "trying", "ok"}) => shots = <<>>

\* ------------------------------------------------------------------------
\* Properties of a task's run with its call spelled out (SpecTask)
\* ------------------------------------------------------------------------
\* C27: a record's results field is written only after every provider run
\* of the task has ended and the session has been released: as long as
\* the task's execute_email_task call has not returned (a provider may
\* still be running) the record, and every status read of it, shows
\* results unset, and the call returns its dict only with every list
\* entry processed and the session released.
C27_ResultsOnlyAfterAllRuns ==
    /\ [](\A t \in DOMAIN tasks :
             rpc[t] \in {"queued", "executing", "in_executor", "returned"}
                => tasks[t].results = None)
    /\ []((reply.op = "status" /\ reply.code = 200 /\ reply.task.results # None)
             => /\ rpc[reply.task_id] = "done"
                /\ reply.task.results = Some(ret[reply.task_id].value)
                /\ DOMAIN ret[reply.task_id].value = Range(args[reply.task_id]))
    /\ [][\A t \in TaskIds :
            (rpc[t] = "in_executor" /\ rpc'[t] = "returned" /\ ret'[t].kind = "value")
               => /\ Len(outcomes) = Len(providers)
                  /\ ~InRun
                  /\ released = acquired]_vars

C27_Witness ==
    /\ reply.op = "status" /\ reply.code = 200 /\ reply.task_id = 1
    /\ reply.task.status = "running"
    /\ reply.task.results = None
    /\ rpc[1] = "in_executor"
    /\ providers = <<"gmail", "Gmail">>
    /\ outcomes = <<"Succeeded">>
    /\ apc = "step"
    /\ results = [gmail |-> TRUE]

\* ------------------------------------------------------------------------
\* Termination of the steps and of a provider run (SpecAgentFair)
\* ------------------------------------------------------------------------
\* The step's overall bound in ticks: every selector waited out in full
StepBound(name, s) == SelectorCount[Lower(name)][s] * LocateTimeout[s]

\* C31: a step attempts each of its selectors at most once, in order and
\* without going back, and waits at most the locate timeout on each; when
\* all of them have failed the step is over with the outcome "exhausted",
\* and counted in timeout ticks it has not gone past its overall bound
\* (number of selectors times the locate timeout). A provider run that
\* was started is left again, and it is left with a terminal outcome.
C31_StepTerminatesWithinBound ==
    /\ [](tstep # "none" =>
            /\ \A j \in 1..Len(tried) : tried[j] = j
            /\ Len(tried) <= SelectorCount[Lower(RunName)][tstep]
            /\ ticks <= Len(tried) * LocateTimeout[tstep]
            /\ ticks <= StepBound(RunName, tstep)
            /\ done[tstep] = "exhausted" <=>
                 /\ done[tstep] # "error"
                 /\ acted = <<>>
                 /\ Len(tried) = SelectorCount[Lower(RunName)][tstep]
                 /\ ticks = StepBound(RunName, tstep))
    /\ [][(apc = "step" /\ done'[StepNames[stage]] = "exhausted")
             => (apc' # "step" \/ stage' = stage + 1)]_vars
    /\ [][(InRun /\ ~InRun')
             => /\ apc' = "loop"
                /\ outcomes' = Append(outcomes, outcomes'[Len(outcomes')])
                /\ outcomes'[Len(outcomes')] \in
                      {"Succeeded", "Failed", "RequiresManualIntervention"}]_vars
    /\ InRun ~> ~InRun

C31_Witness ==
    /\ apc = "returned"
    /\ providers = <<"Outlook">>
    /\ outcomes = <<"RequiresManualIntervention">>
    /\ tstep = "send"
    /\ done["send"] = "exhausted"
    /\ tried = <<1, 2, 3, 4, 5>>
    /\ ticks = 5

\* C32: when _setup_driver fails, no provider is attempted and the
\* exception leaves execute_email_task after the finally clause released
\* whatever session was created; the task's run then writes the record as
\* failed, with error and completed_at set and results unset.
C32_SetupFailureRecordedFailed ==
    /\ [][(apc = "setup" /\ exc' = "setup")
             => apc' = "cleanup" /\ outcomes' = <<>> /\ touched' = {}]_vars
    /\ [][(apc = "cleanup" /\ exc = "setup" /\ apc' # "cleanup")
             => /\ apc' = "raised"
                /\ released' = acquired
                /\ outcomes' = <<>> /\ touched' = {} /\ results' = <<>>]_vars
    /\ [][\A t \in TaskIds :
            (rpc[t] = "in_executor" /\ apc = "raised" /\ rpc'[t] = "returned")
               => ret'[t].kind = "raise"]_vars
    /\ [][\A t \in TaskIds :
            (rpc[t] = "returned" /\ ret[t].kind = "raise" /\ rpc'[t] # "returned")
               => /\ t \in DOMAIN tasks'
                  /\ tasks'[t].status = "failed"
                  /\ tasks'[t].error # None
                  /\ tasks'[t].results = None
                  /\ tasks'[t].completed_at # None]_vars

====
